---------------------------- MODULE Spec2Model ----------------------------
(***************************************************************************)
(* Model of the CSV processor: csv_processor/core.py (typed-at-load        *)
(* variant) and csv_processor/main.py (raw-string variant).                *)
(*                                                                         *)
(* Text is a sequence of code points, so that substring search, splitting, *)
(* trimming, reversal and lexicographic comparison are computed as Python  *)
(* computes them.  A number is the integer value of a float; the numerals  *)
(* of the input pools are unsigned integer-valued decimals ("30", "05"),   *)
(* for which float() and str() are modelled exactly (str(30.0) = "30.0").  *)
(* Signed numerals, fractions, exponents, inf and nan are outside of the   *)
(* input pools.                                                            *)
(***************************************************************************)
EXTENDS Integers, Sequences, FiniteSets, TLC

VARIABLES
    pc,         \* position of the running call / of cli()
    impl,       \* "core" (core.py) or "main" (main.py)
    file,       \* the CSV file given to cli(): [exists, header, cells]
    data,       \* the dataset a function is applied to
    where,      \* args.where     (<<>> when the option is absent)
    order_by,   \* args.order_by  (<<>> when the option is absent)
    aggregate,  \* args.aggregate (<<>> when the option is absent)
    result,     \* outcome of the last call
    again,      \* outcome of applying the filter to its own output
    trace,      \* cli(): the stages that have started, in order
    printed,    \* cli(): number of tables written
    errors      \* cli(): number of error messages written

vars == <<pc, impl, file, data, where, order_by, aggregate, result, again,
          trace, printed, errors>>

(***************************************************************************)
(* Bounds of the model.                                                    *)
(***************************************************************************)
MaxRows == 3
MaxCondLen == 4

(***************************************************************************)
(* Text.                                                                   *)
(***************************************************************************)
\* the characters Python's str.strip() and float() discard at both ends
Whitespace == {9, 10, 11, 12, 13, 28, 29, 30, 31, 32}
DigitChars == 48 .. 57

S_GE == <<62, 61>>
S_LE == <<60, 61>>
S_EQ == <<61>>
S_GT == <<62>>
S_LT == <<60>>

RECURSIVE lstrip(_)
lstrip(s) ==
    IF s # <<>> /\ Head(s) \in Whitespace THEN lstrip(Tail(s)) ELSE s

RECURSIVE rstrip(_)
rstrip(s) ==
    IF s # <<>> /\ s[Len(s)] \in Whitespace
    THEN rstrip(SubSeq(s, 1, Len(s) - 1))
    ELSE s

strip(s) == rstrip(lstrip(s))

\* s[::-1]
Reversed(s) == [i \in 1 .. Len(s) |-> s[Len(s) + 1 - i]]

\* str.find: index of the first occurrence of sub in s at or after i, 0 if none
RECURSIVE Find(_, _, _)
Find(s, sub, i) ==
    IF i + Len(sub) - 1 > Len(s) THEN 0
    ELSE IF SubSeq(s, i, i + Len(sub) - 1) = sub THEN i
    ELSE Find(s, sub, i + 1)

\* sub in s
Contains(s, sub) == Find(s, sub, 1) # 0

\* s.split(sep, maxsplit=1) when sep occurs in s
SplitOnce(s, sep) ==
    LET i == Find(s, sep, 1)
    IN  <<SubSeq(s, 1, i - 1), SubSeq(s, i + Len(sep), Len(s))>>

\* a < b on str: lexicographic by code point
RECURSIVE StrLess(_, _)
StrLess(a, b) ==
    IF b = <<>> THEN FALSE
    ELSE IF a = <<>> THEN TRUE
    ELSE IF Head(a) # Head(b) THEN Head(a) < Head(b)
    ELSE StrLess(Tail(a), Tail(b))

(***************************************************************************)
(* Numbers.                                                                *)
(***************************************************************************)
RECURSIVE DigitsValue(_)
DigitsValue(s) ==
    IF s = <<>> THEN 0
    ELSE 10 * DigitsValue(SubSeq(s, 1, Len(s) - 1)) + (s[Len(s)] - 48)

\* float(s) succeeds: digits, optionally followed by "." and zeros
IsNumeral(s) ==
    LET u == strip(s)
    IN  \E k \in 1 .. Len(u) :
            /\ \A i \in 1 .. k : u[i] \in DigitChars
            /\ \/ k = Len(u)
               \/ /\ u[k + 1] = 46
                  /\ \A i \in (k + 2) .. Len(u) : u[i] = 48

\* float(s) for a numeral
FloatOf(s) ==
    LET u == strip(s)
        k == CHOOSE k \in 1 .. Len(u) :
                 /\ \A i \in 1 .. k : u[i] \in DigitChars
                 /\ (k = Len(u) \/ u[k + 1] = 46)
    IN  DigitsValue(SubSeq(u, 1, k))

RECURSIVE DigitsOf(_)
DigitsOf(n) ==
    IF n < 10 THEN <<48 + n>>
    ELSE Append(DigitsOf(n \div 10), 48 + (n % 10))

\* str(x) of a non-negative integer-valued float: "30.0"
FloatStr(n) == DigitsOf(n) \o <<46, 48>>

(***************************************************************************)
(* Cells, rows and outcomes.                                               *)
(***************************************************************************)
Num(n) == [kind |-> "num", n |-> n, s |-> <<>>]
Text(s) == [kind |-> "str", n |-> 0, s |-> s]
\* the value csv.DictReader gives to a field that a line does not have
None == [kind |-> "none", n |-> 0, s |-> <<>>]

\* str(cell)
CellStr(c) == IF c.kind = "num" THEN FloatStr(c.n) ELSE c.s

\* float(x) if not isinstance(x, (int, float)) else x: succeeds, and its value
IsNumericCell(c) == c.kind = "num" \/ (c.kind = "str" /\ IsNumeral(c.s))
CellNumber(c) == IF c.kind = "num" THEN c.n ELSE FloatOf(c.s)

NoneValue == [none |-> TRUE, num |-> 0, den |-> 1]
Value(n, d) == [none |-> FALSE, num |-> n, den |-> d]

NoResult ==
    [status |-> "none", error |-> "", rows |-> <<>>, parts |-> <<>>,
     value |-> NoneValue]
Raise(e) == [NoResult EXCEPT !.status = "error", !.error = e]
OkRows(r) == [NoResult EXCEPT !.status = "ok", !.rows = r]
OkParts(p) == [NoResult EXCEPT !.status = "ok", !.parts = p]
OkValue(v) == [NoResult EXCEPT !.status = "ok", !.value = v]

(***************************************************************************)
(* parse_condition (identical in core.py and main.py).                     *)
(***************************************************************************)
\* the single-character operators tried before the compound ones
operators_eq_first == <<S_EQ, S_GT, S_LT, S_GE, S_LE>>

operators == <<S_GE, S_LE, S_EQ, S_GT, S_LT>>

RECURSIVE parse_loop(_, _)
parse_loop(condition, k) ==
    IF k > Len(operators) THEN Raise("MalformedCondition")
    ELSE LET op == operators[k]
         IN  IF Contains(condition, op)
             THEN LET p == SplitOnce(condition, op)
                  IN  OkParts(<<strip(p[1]), op, strip(p[2])>>)
             ELSE parse_loop(condition, k + 1)

parse_condition(condition) == parse_loop(condition, 1)

(***************************************************************************)
(* read_csv.  A file is [exists, header, cells]: its lines have the fields *)
(* "t", the line number (so that every row of a dataset is distinct), and  *)
(* "k", whose raw text in line i is cells[i]; cells[i] = Missing when line *)
(* i ends after its first field.                                           *)
(***************************************************************************)
ColK == <<107>>
ColT == <<116>>
ColZ == <<122>>
Header == <<ColT, ColK>>
Missing == <<-1>>

\* a row of csv.DictReader
RawRow(cell, i) ==
    (ColT :> Text(DigitsOf(i)))
        @@ (ColK :> IF cell = Missing THEN None ELSE Text(cell))

\* core.py lines 21-26: numeric text becomes a number, other text is trimmed
ReadCell(value) ==
    IF IsNumeral(value) THEN Num(FloatOf(value))
    ELSE IF value # <<>> THEN Text(strip(value)) ELSE Text(value)

\* float(None) raises TypeError, which line 25 does not catch
core_read_csv(f) ==
    IF ~f.exists THEN Raise("FileNotFound")
    ELSE IF f.header = <<>> THEN Raise("MissingHeader")
    ELSE IF \E i \in 1 .. Len(f.cells) : f.cells[i] = Missing
    THEN Raise("TypeError")
    ELSE OkRows([i \in 1 .. Len(f.cells) |->
                    LET raw == RawRow(f.cells[i], i)
                    IN  [c \in DOMAIN raw |-> ReadCell(raw[c].s)]])

main_read_csv(f) ==
    IF ~f.exists THEN Raise("FileNotFound")
    ELSE OkRows([i \in 1 .. Len(f.cells) |-> RawRow(f.cells[i], i)])

read_csv(variant, f) ==
    IF variant = "core" THEN core_read_csv(f) ELSE main_read_csv(f)

(***************************************************************************)
(* apply_filter.                                                           *)
(***************************************************************************)
\* ">=" taken for ">"
NumCompare_ge_as_gt(operator, row_num, val_num) ==
    IF operator = S_GT THEN row_num > val_num
    ELSE IF operator = S_LT THEN row_num < val_num
    ELSE IF operator = S_EQ THEN row_num = val_num
    ELSE IF operator = S_GE THEN row_num > val_num
    ELSE IF operator = S_LE THEN row_num <= val_num
    ELSE FALSE

\* the numeric branch: core.py lines 60-71, main.py lines 41-50
NumCompare(operator, row_num, val_num) ==
    IF operator = S_GT THEN row_num > val_num
    ELSE IF operator = S_LT THEN row_num < val_num
    ELSE IF operator = S_EQ THEN row_num = val_num
    ELSE IF operator = S_GE THEN row_num >= val_num
    ELSE IF operator = S_LE THEN row_num <= val_num
    ELSE FALSE

\* one iteration of the loop of core.apply_filter: "met", "skip"
core_filter_row(row, column, operator, value) ==
    IF column \notin DOMAIN row \/ row[column] = None THEN "skip"
    ELSE LET row_value == row[column]
             numeric == /\ (row_value.kind = "num" \/ IsNumeral(row_value.s))
                        /\ IsNumeral(value)
             row_num == IF row_value.kind = "num" THEN row_value.n
                        ELSE FloatOf(row_value.s)
             str_row == CellStr(row_value)
             condition_met ==
                 IF numeric THEN NumCompare(operator, row_num, FloatOf(value))
                 ELSE IF operator = S_EQ THEN str_row = value
                 ELSE IF operator = S_GT THEN StrLess(value, str_row)
                 ELSE IF operator = S_LT THEN StrLess(str_row, value)
                 ELSE FALSE
         IN  IF condition_met THEN "met" ELSE "skip"

\* one iteration of the loop of main.apply_filter: "met", "skip" or the
\* exception that leaves the loop
main_filter_row(row, column, operator, value) ==
    IF column \notin DOMAIN row THEN "KeyError"
    ELSE IF row[column] = None THEN "TypeError"
    ELSE LET row_value == row[column].s
             numeric == IsNumeral(row_value) /\ IsNumeral(value)
         IN  IF numeric
             THEN IF NumCompare(operator, FloatOf(row_value), FloatOf(value))
                  THEN "met" ELSE "skip"
             ELSE IF operator = S_EQ
                  THEN IF row_value = value THEN "met" ELSE "skip"
             ELSE IF operator = S_GT
                  THEN IF StrLess(value, row_value) THEN "met" ELSE "skip"
             ELSE IF operator = S_LT
                  THEN IF StrLess(row_value, value) THEN "met" ELSE "skip"
             ELSE "UnsupportedOperator"

filter_row(variant, row, parts) ==
    IF variant = "core"
    THEN core_filter_row(row, parts[1], parts[2], parts[3])
    ELSE main_filter_row(row, parts[1], parts[2], parts[3])

\* a loop that never looks at the first row
RECURSIVE filter_loop_skipfirst(_, _, _, _, _)
filter_loop_skipfirst(variant, rows, parts, i, filtered_data) ==
    LET j == IF i = 1 THEN 2 ELSE i
    IN  IF j > Len(rows) THEN OkRows(filtered_data)
        ELSE LET o == filter_row(variant, rows[j], parts)
             IN  IF o = "met"
                 THEN filter_loop_skipfirst(variant, rows, parts, j + 1,
                                            Append(filtered_data, rows[j]))
                 ELSE IF o = "skip"
                 THEN filter_loop_skipfirst(variant, rows, parts, j + 1,
                                            filtered_data)
                 ELSE Raise(o)

\* for row in data: ... filtered_data.append(row)
RECURSIVE filter_loop(_, _, _, _, _)
filter_loop(variant, rows, parts, i, filtered_data) ==
    IF i > Len(rows) THEN OkRows(filtered_data)
    ELSE LET o == filter_row(variant, rows[i], parts)
         IN  IF o = "met"
             THEN filter_loop(variant, rows, parts, i + 1,
                              Append(filtered_data, rows[i]))
             ELSE IF o = "skip"
             THEN filter_loop(variant, rows, parts, i + 1, filtered_data)
             ELSE Raise(o)

apply_filter(variant, rows, condition) ==
    LET p == parse_condition(condition)
    IN  IF p.status = "error" THEN p
        ELSE filter_loop(variant, rows, p.parts, 1, <<>>)

(***************************************************************************)
(* apply_order_by.                                                         *)
(***************************************************************************)
S_asc == <<97, 115, 99>>
S_desc == <<100, 101, 115, 99>>

\* the keys of the table SORT_ORDERS
SORT_ORDER_NAMES == {S_asc, S_desc}

\* SORT_ORDERS[order](x): core.py lines 130-133, main.py lines 104-107
SORT_ORDERS(order, x) ==
    IF order = S_asc THEN x
    ELSE IF x.kind = "num" THEN Num(0 - x.n)
    ELSE Text(Reversed(x.s))

\* a < b on two keys of one kind
KeyLess(a, b) ==
    IF a.kind = "num" THEN a.n < b.n ELSE StrLess(a.s, b.s)

\* an insertion that puts the new item before the items of equal key
RECURSIVE insert_before_equal(_, _)
insert_before_equal(items, item) ==
    IF items = <<>> THEN <<item>>
    ELSE IF ~KeyLess(Head(items).key, item.key) THEN <<item>> \o items
    ELSE <<Head(items)>> \o insert_before_equal(Tail(items), item)

\* sorted() is stable: a new item goes after the items of equal key
RECURSIVE insert(_, _)
insert(items, item) ==
    IF items = <<>> THEN <<item>>
    ELSE IF KeyLess(item.key, Head(items).key) THEN <<item>> \o items
    ELSE <<Head(items)>> \o insert(Tail(items), item)

RECURSIVE sort_loop(_, _, _)
sort_loop(items, i, acc) ==
    IF i > Len(items) THEN acc
    ELSE sort_loop(items, i + 1, insert(acc, items[i]))

\* sorted(rows, key=...) for keys of one kind; comparing a number with a
\* string raises TypeError as soon as two rows are compared
sorted(rows, keys) ==
    IF /\ Len(rows) >= 2
       /\ \E i, j \in 1 .. Len(keys) : keys[i].kind # keys[j].kind
    THEN Raise("TypeError")
    ELSE LET items == [i \in 1 .. Len(rows) |->
                          [key |-> keys[i], row |-> rows[i]]]
             out == sort_loop(items, 1, <<>>)
         IN  OkRows([i \in 1 .. Len(out) |-> out[i].row])

\* core.py line 151: key = SORT_ORDERS[order](x.get(column, 0))
core_keys(rows, column, order) ==
    [i \in 1 .. Len(rows) |->
        SORT_ORDERS(order, IF column \in DOMAIN rows[i]
                           THEN rows[i][column] ELSE Num(0))]

\* core.py line 153: key = SORT_ORDERS[order](str(x.get(column, '')))
core_keys_str(rows, column, order) ==
    [i \in 1 .. Len(rows) |->
        SORT_ORDERS(order, IF column \in DOMAIN rows[i]
                           THEN Text(CellStr(rows[i][column]))
                           ELSE Text(<<>>))]

\* main.py line 120: key = SORT_ORDERS[order](x[column])
main_keys_str(rows, column, order) ==
    [i \in 1 .. Len(rows) |-> SORT_ORDERS(order, rows[i][column])]

\* main.py line 118: key = SORT_ORDERS[order](float(x[column]))
main_keys(rows, column, order) ==
    [i \in 1 .. Len(rows) |->
        SORT_ORDERS(order, Num(FloatOf(rows[i][column].s)))]

\* the keys the call ends up sorting by
sort_keys(variant, rows, column, order) ==
    IF variant = "core"
    THEN IF sorted(rows, core_keys(rows, column, order)).status = "ok"
         THEN core_keys(rows, column, order)
         ELSE core_keys_str(rows, column, order)
    ELSE IF \A i \in 1 .. Len(rows) : IsNumeral(rows[i][column].s)
         THEN main_keys(rows, column, order)
         ELSE main_keys_str(rows, column, order)

core_apply_order_by(rows, condition) ==
    IF ~Contains(condition, S_EQ) THEN Raise("MalformedSpec")
    ELSE LET p == SplitOnce(condition, S_EQ)
             column == strip(p[1])
             order == strip(p[2])
         IN  IF order \notin SORT_ORDER_NAMES THEN Raise("UnknownDirection")
             ELSE sorted(rows, sort_keys("core", rows, column, order))

main_apply_order_by(rows, condition) ==
    IF ~Contains(condition, S_EQ) THEN Raise("MalformedSpec")
    ELSE LET p == SplitOnce(condition, S_EQ)
             column == strip(p[1])
             order == strip(p[2])
         IN  IF order \notin SORT_ORDER_NAMES THEN Raise("UnknownDirection")
             ELSE IF \E i \in 1 .. Len(rows) : column \notin DOMAIN rows[i]
             THEN Raise("KeyError")
             ELSE IF \E i \in 1 .. Len(rows) : rows[i][column] = None
             THEN Raise("TypeError")
             ELSE sorted(rows, sort_keys("main", rows, column, order))

apply_order_by(variant, rows, condition) ==
    IF variant = "core" THEN core_apply_order_by(rows, condition)
    ELSE main_apply_order_by(rows, condition)

(***************************************************************************)
(* apply_aggregation.                                                      *)
(***************************************************************************)
S_avg == <<97, 118, 103>>
S_min == <<109, 105, 110>>
S_max == <<109, 97, 120>>
S_median == <<109, 101, 100, 105, 97, 110>>
S_sum == <<115, 117, 109>>
S_count == <<99, 111, 117, 110, 116>>

\* the keys of the table AGGREGATIONS: core.py lines 93-100, main.py 68-73
AGGREGATION_NAMES(variant) ==
    IF variant = "core"
    THEN {S_avg, S_min, S_max, S_median, S_sum, S_count}
    ELSE {S_avg, S_min, S_max, S_median}

RECURSIVE sum(_)
sum(x) == IF x = <<>> THEN 0 ELSE Head(x) + sum(Tail(x))

\* sorted(x) on numbers
sorted_numbers(x) ==
    LET items == [i \in 1 .. Len(x) |-> [key |-> Num(x[i]), row |-> x[i]]]
        out == sort_loop(items, 1, <<>>)
    IN  [i \in 1 .. Len(out) |-> out[i].row]

\* the middle taken at index (len(x) - 1) // 2
median_low(x) ==
    IF x # <<>> THEN sorted_numbers(x)[((Len(x) - 1) \div 2) + 1] ELSE 0

\* sorted(x)[len(x) // 2] if x else 0   (Python indexes from 0)
median(x) ==
    IF x # <<>> THEN sorted_numbers(x)[(Len(x) \div 2) + 1] ELSE 0

\* AGGREGATIONS[operation](values)
AGGREGATIONS(operation, x) ==
    IF operation = S_avg
    THEN IF Len(x) = 0 THEN Raise("ZeroDivisionError")
         ELSE OkValue(Value(sum(x), Len(x)))
    ELSE IF operation = S_min
    THEN IF x = <<>> THEN Raise("EmptySequence")
         ELSE OkValue(Value(sorted_numbers(x)[1], 1))
    ELSE IF operation = S_max
    THEN IF x = <<>> THEN Raise("EmptySequence")
         ELSE OkValue(Value(sorted_numbers(x)[Len(x)], 1))
    ELSE IF operation = S_median THEN OkValue(Value(median(x), 1))
    ELSE IF operation = S_sum THEN OkValue(Value(sum(x), 1))
    ELSE OkValue(Value(Len(x), 1))

\* a collection that leaves out the cells that are no numbers
core_values_lenient(rows, column) ==
    LET Has(r) == column \in DOMAIN r /\ IsNumericCell(r[column])
        kept == SelectSeq(rows, Has)
    IN  OkRows([i \in 1 .. Len(kept) |-> CellNumber(kept[i][column])])

\* core.py lines 117-121: the numbers of the rows that have the column
core_values(rows, column) ==
    LET Has(r) == column \in DOMAIN r
        kept == SelectSeq(rows, Has)
    IN  IF \E i \in 1 .. Len(kept) : ~IsNumericCell(kept[i][column])
        THEN Raise("NonNumericColumn")
        ELSE OkRows([i \in 1 .. Len(kept) |-> CellNumber(kept[i][column])])

\* main.py lines 90-93: the first row that fails decides the exception; only
\* ValueError is turned into the non-numeric-column error
RECURSIVE main_values_loop(_, _, _, _)
main_values_loop(rows, column, i, acc) ==
    IF i > Len(rows) THEN OkRows(acc)
    ELSE IF column \notin DOMAIN rows[i] THEN Raise("KeyError")
    ELSE IF rows[i][column] = None THEN Raise("TypeError")
    ELSE IF ~IsNumeral(rows[i][column].s) THEN Raise("NonNumericColumn")
    ELSE main_values_loop(rows, column, i + 1,
                          Append(acc, FloatOf(rows[i][column].s)))

main_values(rows, column) == main_values_loop(rows, column, 1, <<>>)

\* the record {operation, column, value}
Record(operation, column, r) ==
    IF r.status = "ok" THEN [r EXCEPT !.parts = <<operation, column>>] ELSE r

core_apply_aggregation(rows, condition) ==
    IF ~Contains(condition, S_EQ) THEN Raise("MalformedSpec")
    ELSE LET p == SplitOnce(condition, S_EQ)
             column == strip(p[1])
             operation == strip(p[2])
             values == core_values(rows, column)
         IN  IF operation \notin AGGREGATION_NAMES("core")
             THEN Raise("UnknownOperation")
             ELSE IF values.status = "error" THEN values
             ELSE IF values.rows = <<>>
             THEN Record(operation, column, OkValue(NoneValue))
             ELSE Record(operation, column,
                         AGGREGATIONS(operation, values.rows))

main_apply_aggregation(rows, condition) ==
    IF ~Contains(condition, S_EQ) THEN Raise("MalformedSpec")
    ELSE LET p == SplitOnce(condition, S_EQ)
             column == strip(p[1])
             operation == strip(p[2])
             values == main_values(rows, column)
         IN  IF operation \notin AGGREGATION_NAMES("main")
             THEN Raise("UnknownOperation")
             ELSE IF values.status = "error" THEN values
             ELSE Record(operation, column,
                         AGGREGATIONS(operation, values.rows))

apply_aggregation(variant, rows, condition) ==
    IF variant = "core" THEN core_apply_aggregation(rows, condition)
    ELSE main_apply_aggregation(rows, condition)

(***************************************************************************)
(* Specification SpecParse: parse_condition on every short string over a   *)
(* small alphabet (a letter, a digit, a blank and the operator characters).*)
(***************************************************************************)
CondAlphabet == {107, 53, 32, 60, 61, 62}

CondStrings ==
    UNION {[1 .. n -> CondAlphabet] : n \in 0 .. MaxCondLen}

InitParse ==
    /\ pc = "parse"
    /\ where \in CondStrings
    /\ impl \in {"core", "main"}
    /\ file = [exists |-> FALSE, header |-> <<>>, cells |-> <<>>]
    /\ data = <<>>
    /\ order_by = <<>>
    /\ aggregate = <<>>
    /\ result = NoResult
    /\ again = NoResult
    /\ trace = <<>>
    /\ printed = 0
    /\ errors = 0

ParseCall ==
    /\ pc = "parse"
    /\ result' = parse_condition(where)
    /\ pc' = "done"
    /\ UNCHANGED <<impl, file, data, where, order_by, aggregate, again,
                   trace, printed, errors>>

NextParse == ParseCall

SpecParse == InitParse /\ [][NextParse]_vars

(***************************************************************************)
(* Properties of parse_condition, checked under SpecParse.                 *)
(***************************************************************************)
OccursAt(s, op, i) ==
    /\ i + Len(op) - 1 <= Len(s)
    /\ \A j \in 1 .. Len(op) : s[i + j - 1] = op[j]

Occurs(s, op) == \E i \in 1 .. Len(s) : OccursAt(s, op, i)

\* t is s without its leading and trailing whitespace
IsTrimOf(t, s) ==
    \E i \in 0 .. Len(s), j \in 0 .. Len(s) :
        /\ t = SubSeq(s, i + 1, j)
        /\ \A n \in 1 .. i : s[n] \in Whitespace
        /\ \A n \in (j + 1) .. Len(s) : s[n] \in Whitespace
        /\ t # <<>> => (t[1] \notin Whitespace /\ t[Len(t)] \notin Whitespace)

Priority == <<S_GE, S_LE, S_EQ, S_GT, S_LT>>

\* C9: parse_condition splits at the first occurrence of the first operator,
\* in the priority order >=, <=, =, >, <, that occurs anywhere in the string
\* and returns (left trimmed, operator, right trimmed); it fails with the
\* malformed-condition error when no operator occurs.
C9_ParsePriorityAndSplit ==
    pc = "done" =>
        IF \E n \in 1 .. Len(Priority) : Occurs(where, Priority[n])
        THEN \E n \in 1 .. Len(Priority), i \in 1 .. Len(where) :
                /\ \A m \in 1 .. (n - 1) : ~Occurs(where, Priority[m])
                /\ OccursAt(where, Priority[n], i)
                /\ \A h \in 1 .. (i - 1) : ~OccursAt(where, Priority[n], h)
                /\ result.status = "ok"
                /\ result.parts[2] = Priority[n]
                /\ IsTrimOf(result.parts[1], SubSeq(where, 1, i - 1))
                /\ IsTrimOf(result.parts[3],
                            SubSeq(where, i + Len(Priority[n]), Len(where)))
        ELSE result = Raise("MalformedCondition")

C9_Witness ==
    /\ pc = "done"
    /\ where = <<32, 107, 62, 61>>
    /\ result = OkParts(<<ColK, S_GE, <<>>>>)

(***************************************************************************)
(* Input pools of the function specifications.                             *)
(***************************************************************************)
S_30 == <<51, 48>>
S_25 == <<50, 53>>
S_5 == <<53>>
S_05 == <<48, 53>>
S_Bob == <<66, 111, 98>>
S_Alice == <<65, 108, 105, 99, 101>>
S_Eve == <<69, 118, 101>>

CellPool == {S_30, S_25, S_5, S_05, S_Bob, S_Alice, S_Eve, Missing}

CellSeqs == UNION {[1 .. n -> CellPool] : n \in 0 .. MaxRows}

FileOf(cells) == [exists |-> TRUE, header |-> Header, cells |-> cells]

\* the dataset read_csv hands to the functions of a variant
Readable(variant, cells) == read_csv(variant, FileOf(cells)).status = "ok"
Load(variant, cells) == read_csv(variant, FileOf(cells)).rows

Variants == {"core", "main"}

(***************************************************************************)
(* Specification SpecFilter: apply_filter, then apply_filter on its own    *)
(* output.                                                                 *)
(***************************************************************************)
FilterOps == {S_GE, S_LE, S_EQ, S_GT, S_LT}
FilterOperands == {S_25, S_5, S_Bob}
FilterCols == {ColK, ColZ}

WherePool ==
    {c \o o \o v : c \in FilterCols, o \in FilterOps, v \in FilterOperands}
        \cup {ColK \o S_5}

InitFilter ==
    /\ pc = "filter"
    /\ impl \in Variants
    /\ \E cells \in CellSeqs :
           /\ Readable(impl, cells)
           /\ file = FileOf(cells)
           /\ data = Load(impl, cells)
    /\ where \in WherePool
    /\ order_by = <<>>
    /\ aggregate = <<>>
    /\ result = NoResult
    /\ again = NoResult
    /\ trace = <<>>
    /\ printed = 0
    /\ errors = 0

FilterCall ==
    /\ pc = "filter"
    /\ result' = apply_filter(impl, data, where)
    /\ pc' = "refilter"
    /\ UNCHANGED <<impl, file, data, where, order_by, aggregate, again,
                   trace, printed, errors>>

FilterAgain ==
    /\ pc = "refilter"
    /\ result.status = "ok"
    /\ again' = apply_filter(impl, result.rows, where)
    /\ pc' = "done"
    /\ UNCHANGED <<impl, file, data, where, order_by, aggregate, result,
                   trace, printed, errors>>

FilterRaised ==
    /\ pc = "refilter"
    /\ result.status = "error"
    /\ pc' = "raised"
    /\ UNCHANGED <<impl, file, data, where, order_by, aggregate, result,
                   again, trace, printed, errors>>

NextFilter == FilterCall \/ FilterAgain \/ FilterRaised

SpecFilter == InitFilter /\ [][NextFilter]_vars

(***************************************************************************)
(* Properties of apply_filter, checked under SpecFilter.                   *)
(***************************************************************************)
\* every row has the column and holds a number in it
NumericColumn(rows, c) ==
    \A i \in 1 .. Len(rows) :
        c \in DOMAIN rows[i] /\ IsNumericCell(rows[i][c])

\* the reference numeric predicate
RefHolds(o, a, b) ==
    \/ o = S_EQ /\ a = b
    \/ o = S_GT /\ a > b
    \/ o = S_LT /\ b > a
    \/ o = S_GE /\ ~(a < b)
    \/ o = S_LE /\ ~(a > b)

RefFilter(rows, c, o, v) ==
    LET Keep(r) == RefHolds(o, CellNumber(r[c]), FloatOf(v))
    IN  SelectSeq(rows, Keep)

\* C4: on a numeric column and with a numeric operand, apply_filter returns
\* exactly the rows whose number satisfies the operator against the operand,
\* as a subsequence of the input in the input's order.
C4_FilterIsNumericPredicate ==
    pc # "filter" =>
        \A c \in FilterCols, o \in FilterOps, v \in FilterOperands :
            (where = c \o o \o v /\ IsNumeral(v) /\ NumericColumn(data, c))
                => result = OkRows(RefFilter(data, c, o, v))

C4_Witness ==
    /\ pc = "refilter"
    /\ impl = "core"
    /\ where = ColK \o S_GE \o S_25
    /\ Len(data) = 3
    /\ NumericColumn(data, ColK)
    /\ data[2][ColK] = Num(5)
    /\ result = OkRows(<<data[1], data[3]>>)

\* a >= b, a <= b composed from the string comparisons "=" , ">" and "<"
Composed(o, a, b) ==
    IF o = S_GE THEN a = b \/ StrLess(b, a) ELSE a = b \/ StrLess(a, b)

InRows(rows, r) == \E j \in 1 .. Len(rows) : rows[j] = r

\* C7: in core.apply_filter, a row compared as text under ">=" or "<=" is
\* either kept exactly when the composed string comparison holds, or the
\* call fails; it is never silently dropped.
C7_TextGeLeComposedOrError ==
    (pc # "filter" /\ impl = "core") =>
        \A c \in FilterCols, o \in {S_GE, S_LE}, v \in FilterOperands :
            where = c \o o \o v =>
                \/ result.status = "error"
                \/ \A i \in 1 .. Len(data) :
                       (/\ c \in DOMAIN data[i]
                        /\ ~(IsNumericCell(data[i][c]) /\ IsNumeral(v)))
                           => (InRows(result.rows, data[i])
                                  <=> Composed(o, CellStr(data[i][c]), v))

\* C10: filtering the filtered rows again with the same condition returns
\* the same rows in the same order.
C10_FilterIdempotent ==
    pc = "done" => again = result

C10_Witness ==
    /\ pc = "done"
    /\ again.status = "ok"
    /\ Len(result.rows) = 2
    /\ Len(data) = 3

(***************************************************************************)
(* Specification SpecSort: apply_order_by.                                 *)
(***************************************************************************)
S_up == <<117, 112>>
OrderCols == {ColK, ColT, ColZ}

OrderPool ==
    {c \o S_EQ \o o : c \in OrderCols, o \in {S_asc, S_desc, S_up}}
        \cup {ColK \o S_asc}

InitSort ==
    /\ pc = "sort"
    /\ impl \in Variants
    /\ \E cells \in CellSeqs :
           /\ Readable(impl, cells)
           /\ file = FileOf(cells)
           /\ data = Load(impl, cells)
    /\ order_by \in OrderPool
    /\ where = <<>>
    /\ aggregate = <<>>
    /\ result = NoResult
    /\ again = NoResult
    /\ trace = <<>>
    /\ printed = 0
    /\ errors = 0

SortCall ==
    /\ pc = "sort"
    /\ result' = apply_order_by(impl, data, order_by)
    /\ pc' = "done"
    /\ UNCHANGED <<impl, file, data, where, order_by, aggregate, again,
                   trace, printed, errors>>

NextSort == SortCall

SpecSort == InitSort /\ [][NextSort]_vars

(***************************************************************************)
(* Properties of apply_order_by, checked under SpecSort.                   *)
(***************************************************************************)
\* position of a row in the input (the rows of a dataset are distinct)
IndexIn(rows, r) == CHOOSE i \in 1 .. Len(rows) : rows[i] = r

\* the key of a row under the ascending comparison of the column
AscKey(c, r) == sort_keys(impl, data, c, S_asc)[IndexIn(data, r)]

\* C1: descending order is the inverted ascending comparison of the keys:
\* no row comes before a row whose key is greater in ascending order.
C1_DescInvertsAscending ==
    (pc = "done" /\ result.status = "ok") =>
        \A c \in OrderCols :
            order_by = c \o S_EQ \o S_desc =>
                \A i, j \in 1 .. Len(result.rows) :
                    i < j => ~KeyLess(AscKey(c, result.rows[i]),
                                      AscKey(c, result.rows[j]))

\* C5: the output of apply_order_by is a permutation of the input, and rows
\* of equal sort key keep their input order, ascending and descending.
C5_SortStablePermutation ==
    (pc = "done" /\ result.status = "ok") =>
        \A c \in OrderCols, o \in {S_asc, S_desc} :
            order_by = c \o S_EQ \o o =>
                /\ Len(result.rows) = Len(data)
                /\ \A i \in 1 .. Len(data) : InRows(result.rows, data[i])
                /\ \A i, j \in 1 .. Len(result.rows) :
                       (/\ i < j
                        /\ AscKey(c, result.rows[i]) = AscKey(c, result.rows[j]))
                           => IndexIn(data, result.rows[i])
                                  < IndexIn(data, result.rows[j])

C5_Witness ==
    /\ pc = "done"
    /\ order_by = ColK \o S_EQ \o S_desc
    /\ file.cells = <<S_5, S_30, S_05>>
    /\ result = OkRows(<<data[2], data[1], data[3]>>)

(***************************************************************************)
(* Specification SpecAgg: apply_aggregation.                               *)
(***************************************************************************)
S_nope == <<110, 111, 112, 101>>
AggCols == {ColK, ColT, ColZ}
AggOps == {S_avg, S_min, S_max, S_median, S_sum, S_count, S_nope}

AggPool ==
    {c \o S_EQ \o o : c \in AggCols, o \in AggOps} \cup {ColK \o S_avg}

InitAgg ==
    /\ pc = "aggregate"
    /\ impl \in Variants
    /\ \E cells \in CellSeqs :
           /\ Readable(impl, cells)
           /\ file = FileOf(cells)
           /\ data = Load(impl, cells)
    /\ aggregate \in AggPool
    /\ where = <<>>
    /\ order_by = <<>>
    /\ result = NoResult
    /\ again = NoResult
    /\ trace = <<>>
    /\ printed = 0
    /\ errors = 0

AggCall ==
    /\ pc = "aggregate"
    /\ result' = apply_aggregation(impl, data, aggregate)
    /\ pc' = "done"
    /\ UNCHANGED <<impl, file, data, where, order_by, aggregate, again,
                   trace, printed, errors>>

NextAgg == AggCall

SpecAgg == InitAgg /\ [][NextAgg]_vars

(***************************************************************************)
(* Properties of apply_aggregation, checked under SpecAgg.                 *)
(***************************************************************************)
ColumnNumbers(rows, c) == [i \in 1 .. Len(rows) |-> CellNumber(rows[i][c])]

\* v is the element at index k (from 0) of x in ascending order
HasRank(x, v, k) ==
    /\ \E i \in 1 .. Len(x) : x[i] = v
    /\ Cardinality({i \in 1 .. Len(x) : x[i] < v}) <= k
    /\ Cardinality({i \in 1 .. Len(x) : x[i] <= v}) > k

MedianAtRank(k_odd, k_even) ==
    pc = "done" =>
        \A c \in AggCols :
            (/\ aggregate = c \o S_EQ \o S_median
             /\ data # <<>>
             /\ NumericColumn(data, c))
                => /\ result.status = "ok"
                   /\ ~result.value.none
                   /\ result.value.den = 1
                   /\ HasRank(ColumnNumbers(data, c), result.value.num,
                              IF Len(data) % 2 = 1 THEN k_odd ELSE k_even)

\* C2 as stated: the median of n values is the middle element of the sorted
\* values for odd n and the lower-middle element for even n.
C2_MedianLowerMiddle ==
    MedianAtRank(Len(data) \div 2, (Len(data) \div 2) - 1)

\* C2 as amended: the median of n values is the middle element of the sorted
\* values for odd n and the upper-middle element for even n.
C2_MedianUpperMiddle ==
    MedianAtRank(Len(data) \div 2, Len(data) \div 2)

C2_Witness ==
    /\ pc = "done"
    /\ aggregate = ColK \o S_EQ \o S_median
    /\ file.cells = <<S_30, S_5>>
    /\ result.value = Value(30, 1)

\* C3: every recognized operation on an empty dataset returns the single
\* record {operation, column, value} with a null value, without an error.
C3_EmptyGivesNull ==
    (pc = "done" /\ data = <<>>) =>
        \A c \in AggCols, o \in AGGREGATION_NAMES(impl) :
            aggregate = c \o S_EQ \o o =>
                result = Record(o, c, OkValue(NoneValue))

\* C6: when some row's value in the aggregated column is no number,
\* core.apply_aggregation fails with the non-numeric-column error for every
\* recognized operation, count included, and returns no result.
C6_NonNumericFails ==
    (pc = "done" /\ impl = "core") =>
        \A c \in AggCols, o \in AGGREGATION_NAMES("core") :
            (/\ aggregate = c \o S_EQ \o o
             /\ \E i \in 1 .. Len(data) :
                    c \in DOMAIN data[i] /\ ~IsNumericCell(data[i][c]))
                => result = Raise("NonNumericColumn")

C6_Witness ==
    /\ pc = "done"
    /\ impl = "core"
    /\ aggregate = ColK \o S_EQ \o S_count
    /\ file.cells = <<S_30, S_Bob, S_5>>
    /\ result = Raise("NonNumericColumn")

(***************************************************************************)
(* Specification Spec: one run of the command line, cli() of core.py and   *)
(* main() of main.py.  Every statement of the try block is one step; an    *)
(* exception raised by a step moves control to the except clause.          *)
(* tabulate is a library outside of the repository: its call, inside the   *)
(* try block, either returns the table that print writes or raises.        *)
(***************************************************************************)
PipeCells == {S_30, S_5, S_Bob, Missing}
PipeCellSeqs == UNION {[1 .. n -> PipeCells] : n \in 0 .. MaxRows}

Files ==
    {[exists |-> FALSE, header |-> <<>>, cells |-> <<>>],
     [exists |-> TRUE, header |-> <<>>, cells |-> <<>>]}
        \cup {FileOf(cells) : cells \in PipeCellSeqs}

PipeWhere ==
    {<<>>, ColK \o S_GT \o S_5, ColK \o S_GE \o S_Bob, ColK \o S_5,
     ColZ \o S_EQ \o S_5}
PipeOrder ==
    {<<>>, ColK \o S_EQ \o S_desc, ColK \o S_EQ \o S_up,
     ColZ \o S_EQ \o S_asc}
PipeAggregate ==
    {<<>>, ColK \o S_EQ \o S_avg, ColK \o S_EQ \o S_nope,
     ColT \o S_EQ \o S_count}

Init ==
    /\ pc = "read"
    /\ impl \in Variants
    /\ file \in Files
    /\ where \in PipeWhere
    /\ order_by \in PipeOrder
    /\ aggregate \in PipeAggregate
    /\ data = <<>>
    /\ result = NoResult
    /\ again = NoResult
    /\ trace = <<>>
    /\ printed = 0
    /\ errors = 0

\* data, headers = read_csv(args.file)
ReadStage ==
    /\ pc = "read"
    /\ trace' = Append(trace, "read")
    /\ LET r == read_csv(impl, file)
       IN  /\ result' = r
           /\ IF r.status = "ok"
              THEN data' = r.rows /\ pc' = "where"
              ELSE data' = data /\ pc' = "except"
    /\ UNCHANGED <<impl, file, where, order_by, aggregate, again, printed,
                   errors>>

\* a stage that reports its own error and lets the run go on
WhereStage_goes_on ==
    /\ pc = "where"
    /\ IF where # <<>>
       THEN LET r == apply_filter(impl, data, where)
            IN  /\ trace' = Append(trace, "filter")
                /\ result' = r
                /\ pc' = "order"
                /\ IF r.status = "ok"
                   THEN data' = r.rows /\ errors' = errors
                   ELSE data' = data /\ errors' = errors + 1
       ELSE /\ pc' = "order"
            /\ UNCHANGED <<trace, result, data, errors>>
    /\ UNCHANGED <<impl, file, where, order_by, aggregate, again, printed>>

\* if args.where: data = apply_filter(data, args.where)
WhereStage ==
    /\ pc = "where"
    /\ IF where # <<>>
       THEN LET r == apply_filter(impl, data, where)
            IN  /\ trace' = Append(trace, "filter")
                /\ result' = r
                /\ IF r.status = "ok"
                   THEN data' = r.rows /\ pc' = "order"
                   ELSE data' = data /\ pc' = "except"
       ELSE /\ pc' = "order"
            /\ UNCHANGED <<trace, result, data>>
    /\ UNCHANGED <<impl, file, where, order_by, aggregate, again, printed,
                   errors>>

\* if args.order_by: data = apply_order_by(data, args.order_by)
OrderStage ==
    /\ pc = "order"
    /\ IF order_by # <<>>
       THEN LET r == apply_order_by(impl, data, order_by)
            IN  /\ trace' = Append(trace, "sort")
                /\ result' = r
                /\ IF r.status = "ok"
                   THEN data' = r.rows /\ pc' = "output"
                   ELSE data' = data /\ pc' = "except"
       ELSE /\ pc' = "output"
            /\ UNCHANGED <<trace, result, data>>
    /\ UNCHANGED <<impl, file, where, order_by, aggregate, again, printed,
                   errors>>

\* result = apply_aggregation(data, args.aggregate); print(tabulate(result))
AggregateStage ==
    /\ pc = "output"
    /\ aggregate # <<>>
    /\ trace' = Append(trace, "aggregate")
    /\ LET r == apply_aggregation(impl, data, aggregate)
       IN  /\ result' = r
           /\ IF r.status = "ok"
              THEN \E rendered \in BOOLEAN :
                      IF rendered
                      THEN printed' = printed + 1 /\ pc' = "exit"
                      ELSE printed' = printed /\ pc' = "except"
              ELSE printed' = printed /\ pc' = "except"
    /\ UNCHANGED <<impl, file, data, where, order_by, aggregate, again,
                   errors>>

\* else: print(tabulate(data, headers=headers))
PrintStage ==
    /\ pc = "output"
    /\ aggregate = <<>>
    /\ trace' = Append(trace, "print")
    /\ \E rendered \in BOOLEAN :
           IF rendered
           THEN printed' = printed + 1 /\ pc' = "exit"
           ELSE printed' = printed /\ pc' = "except"
    /\ UNCHANGED <<impl, file, data, where, order_by, aggregate, result,
                   again, errors>>

\* except Exception as e: print(error message); cli() returns normally
ExceptClause ==
    /\ pc = "except"
    /\ errors' = errors + 1
    /\ pc' = "exit"
    /\ UNCHANGED <<impl, file, data, where, order_by, aggregate, result,
                   again, trace, printed>>

Next ==
    \/ ReadStage
    \/ WhereStage
    \/ OrderStage
    \/ AggregateStage
    \/ PrintStage
    \/ ExceptClause

Spec == Init /\ [][Next]_vars

(***************************************************************************)
(* Properties of the command line run, checked under Spec.                 *)
(***************************************************************************)
StageRank(stage) ==
    IF stage = "read" THEN 0
    ELSE IF stage = "filter" THEN 1
    ELSE IF stage = "sort" THEN 2
    ELSE 3

Has(stage) == \E i \in 1 .. Len(trace) : trace[i] = stage

\* the stages run at most once each, in the order filter, sort, then one of
\* aggregate and print, and only when requested
StagesInOrder ==
    /\ \A i, j \in 1 .. Len(trace) :
           i < j => StageRank(trace[i]) < StageRank(trace[j])
    /\ Has("filter") => where # <<>>
    /\ Has("sort") => order_by # <<>>
    /\ Has("aggregate") => aggregate # <<>>
    /\ Has("print") => aggregate = <<>>

\* a run ends with one table and no error message after all the requested
\* stages, or with one error message and no table
EndsWithTableOrError ==
    pc = "exit" =>
        \/ /\ errors = 0
           /\ printed = 1
           /\ Has("filter") <=> where # <<>>
           /\ Has("sort") <=> order_by # <<>>
           /\ Has("aggregate") <=> ~Has("print")
        \/ /\ errors = 1
           /\ printed = 0

Failed == pc = "except" \/ errors > 0

\* after an error no stage starts and no table is written
NothingAfterError ==
    Failed => (trace' = trace /\ printed' = printed /\ errors' <= 1 /\ Failed')

\* C8: the requested stages run at most once each in the order filter, sort,
\* then exactly one of aggregate and print; once a stage raises, no later
\* stage runs, no table is printed, and one error message is written before
\* the run ends normally.
C8_PipelineOrderAndAbort ==
    /\ [](StagesInOrder /\ EndsWithTableOrError)
    /\ [][NothingAfterError]_vars

C8_Witness ==
    /\ pc = "exit"
    /\ trace = <<"read", "filter", "sort">>
    /\ aggregate # <<>>
    /\ result = Raise("UnknownDirection")
    /\ errors = 1
    /\ printed = 0

=============================================================================
